---- MODULE Spec2Model ----
(***************************************************************************)
(* A model of the OPIC cash ledger (src/opic.go), of its binary codec and  *)
(* of its load/save protocol (src/unnamed/part_002).                       *)
(*                                                                         *)
(* Cash values are float64 in the source.  The properties studied here are *)
(* statements of exact arithmetic, so a cash value is modelled as a        *)
(* rational number <<n, d>> in lowest terms with d > 0.                    *)
(***************************************************************************)
EXTENDS Integers, Sequences, FiniteSets, TLC

(***************************************************************************)
(* Bounds of the model.                                                    *)
(***************************************************************************)
\* Number of calls made on the ledger in one run of the sequential model.
MaxSteps == 3
\* Longest identifier list passed to Initialise, Distribute and Finalise.
MaxLen == 2
\* Largest total cash passed to Initialise and largest EnsureBalance target.
MaxCash == 2
\* Times are counted in ticks; a second has TicksPerSec ticks, so that a
\* time may fall between two whole seconds.
TicksPerSec == 2
\* Latest time (in ticks) passed to Distribute or returned by the clock.
MaxTime == 2
\* Number of ledger calls in one run of the persistence model.
MaxDiskSteps == 2
\* Longest identifier list of a ledger call in the persistence model.
MaxDiskLen == 1
\* Number of Save calls and of Load calls in one run of the persistence
\* model.
MaxSaves == 2
MaxLoads == 1
\* Number of Save calls in one run of the model of damaged files.
MaxDamageSaves == 1
\* Number of calls the threads of the concurrent model make in one run.
MaxConcCalls == 3
\* Longest identifier list and largest cash of a call in the concurrent
\* model.
MaxConcLen == 1
MaxConcCash == 1
\* Number of calls in one run of the model of the read operations, longest
\* identifier list of a call there, and longest interval (in ticks) passed
\* to Estimate.
MaxReadSteps == 3
MaxReadLen == 1
MaxInterval == 2
\* The model of the worked example of Distribute: number of calls in one
\* run, largest cash passed to Initialise, longest output list.
MaxExSteps == 3
MaxExCash == 3
MaxExLen == 2
\* The model of concurrent Distribute calls: number of calls that seed the
\* ledger before the threads start, and longest identifier list of a call.
MaxDistSteps == 2
MaxDistLen == 1

(***************************************************************************)
(* Exact arithmetic on cash values.                                        *)
(***************************************************************************)
Abs(x) == IF x < 0 THEN -x ELSE x

RECURSIVE GCD(_, _)
GCD(a, b) == IF b = 0 THEN a ELSE GCD(b, a % b)

\* The rational n/d (d > 0) in lowest terms.
Rat(n, d) == LET g == GCD(Abs(n), d) IN <<n \div g, d \div g>>

RZero == <<0, 1>>
RInt(n) == <<n, 1>>
RAdd(p, q) == Rat(p[1] * q[2] + q[1] * p[2], p[2] * q[2])
RSub(p, q) == Rat(p[1] * q[2] - q[1] * p[2], p[2] * q[2])
RLess(p, q) == p[1] * q[2] < q[1] * p[2]
RLeq(p, q) == p[1] * q[2] <= q[1] * p[2]
\* float64(p) / float64(k) for an integer k > 0.
RDivInt(p, k) == Rat(p[1], p[2] * k)

RMul(p, q) == Rat(p[1] * q[1], p[2] * q[2])
\* p / q for q > 0.
RDiv(p, q) == Rat(p[1] * q[2], p[2] * q[1])

\* The value of cash / float64(0): +Inf, -Inf or NaN.
NonFinite == <<0, 0>>

(***************************************************************************)
(* Identifiers, keys and times.                                            *)
(***************************************************************************)
Idents == {"a", "b"}

\* fnvHash: the 64-bit FNV-1 hash of an identifier.  The model keeps the
\* two facts the ledger relies on: distinct identifiers of the model have
\* distinct keys, and no identifier has the reserved key 0.
fnvHash(s) == CASE s = "a" -> 1 [] s = "b" -> 2 [] s = "c" -> 3

\* The reserved key of the virtual entry.
VirtualKey == 0

Times == 1 .. MaxTime

\* The zero value of time.Time, which a read of an absent key yields.
ZeroTime == -1

\* The largest time.Duration, in ticks: Sub returns it when the difference
\* of two times is larger, as is the difference of a time of the model and
\* the zero time.
MaxDuration == 1000

\* t.Sub(vt)
Sub(t, vt) == IF vt = ZeroTime THEN MaxDuration ELSE t - vt

\* Identifier lists of length 0 .. n.
ListsUpTo(n) == UNION {[1 .. k -> Idents] : k \in 0 .. n}

IdLists == ListsUpTo(MaxLen)

\* Lists of length 0 .. n over the identifiers S.
ListsOver(S, n) == UNION {[1 .. k -> S] : k \in 0 .. n}

(***************************************************************************)
(* Go maps: a map is a function whose domain is the set of keys present.   *)
(***************************************************************************)
EmptyMap == [k \in {} |-> RZero]

\* m[k] on a map of float64: the zero value when k is absent.
Get(m, k) == IF k \in DOMAIN m THEN m[k] ELSE RZero

\* m[k] on a map of time.Time.
GetTime(m, k) == IF k \in DOMAIN m THEN m[k] ELSE ZeroTime

\* m[k] = v
Put(m, k, v) == [x \in DOMAIN m \cup {k} |-> IF x = k THEN v ELSE m[x]]

RECURSIVE SumOver(_, _)
SumOver(m, S) ==
  IF S = {} THEN RZero
  ELSE LET k == CHOOSE x \in S : TRUE
       IN RAdd(m[k], SumOver(m, S \ {k}))

\* for _, v := range m { r += v }
SumMap(m) == SumOver(m, DOMAIN m)

(***************************************************************************)
(* The ledger.  L is the OPIC struct without its mutex.                    *)
(***************************************************************************)
New == [dirty |-> FALSE, current |-> EmptyMap, cleared |-> EmptyMap,
        history |-> EmptyMap]

RECURSIVE InitialiseLoop(_, _, _, _)
InitialiseLoop(cur, in, i, n) ==
  IF i > Len(in) THEN cur
  ELSE InitialiseLoop(Put(cur, fnvHash(in[i]), n), in, i + 1, n)

InitialiseN(L, cash, in) ==
  LET n == IF Len(in) = 0 THEN NonFinite ELSE RDivInt(cash, Len(in))
  IN [L EXCEPT !.current = InitialiseLoop(@, in, 1, n), !.dirty = TRUE]

Initialise(L, cash, in) == InitialiseN(L, cash, in)

\* Lines 73-79: the loop over the outputs; nows[i] is what time.Now()
\* returns in iteration i.
RECURSIVE DistributeLoop(_, _, _, _, _)
DistributeLoop(L, out, i, share, nows) ==
  IF i > Len(out) THEN L
  ELSE LET outH == fnvHash(out[i])
           L1 == [L EXCEPT
                    !.current = Put(@, outH, RAdd(Get(@, outH), share)),
                    !.cleared = IF outH \in DOMAIN @ THEN @
                                ELSE Put(@, outH, nows[i])]
       IN DistributeLoop(L1, out, i + 1, share, nows)

\* Lines 67-79: the source's cash is read and shared out.
DistributeShares(L, source, out, nows) ==
  LET c == Get(L.current, fnvHash(source))
      share == RDivInt(c, Len(out) + 1)
      L1 == [L EXCEPT !.current =
                Put(@, VirtualKey, RAdd(Get(@, VirtualKey), share))]
  IN DistributeLoop(L1, out, 1, share, nows)

\* A skim that divides by the number of entries.
SkimByCount(cur) == RDivInt(Get(cur, VirtualKey), Cardinality(DOMAIN cur))

\* Line 81: the amount skimmed from the reserve.
Skim(cur) == RDivInt(Get(cur, VirtualKey), Cardinality(DOMAIN cur) + 1)

\* Lines 81-88: the skim, with c the cash read at line 69.
DistributeSkim(L, source, c, t) ==
  LET sourceH == fnvHash(source)
      d == Skim(L.current)
      cur1 == Put(L.current, VirtualKey, RSub(Get(L.current, VirtualKey), d))
  IN [dirty |-> TRUE,
      current |-> Put(cur1, sourceH, d),
      cleared |-> Put(L.cleared, sourceH, t),
      history |-> Put(L.history, sourceH, c)]

Distribute(L, source, out, t, nows) ==
  DistributeSkim(DistributeShares(L, source, out, nows), source,
                 Get(L.current, fnvHash(source)), t)

\* The value Distribute returns.
DistributeRet(L, source) == Get(L.current, fnvHash(source))

RECURSIVE FinaliseLoop(_, _, _)
FinaliseLoop(L, in, i) ==
  IF i > Len(in) THEN L
  ELSE LET inH == fnvHash(in[i])
           L1 == [L EXCEPT !.history = Put(@, inH, Get(L.current, inH)),
                           !.current = Put(@, inH, RZero)]
       IN FinaliseLoop(L1, in, i + 1)

Finalise(L, in) == [FinaliseLoop(L, in, 1) EXCEPT !.dirty = TRUE]

\* Sums: <<sum of history, sum of current>>.
Sums(L) == <<SumMap(L.history), SumMap(L.current)>>

\* A top-up that leaves out the test of line 174.
TopUpUnguarded(cur, r, n) ==
  Put(cur, VirtualKey,
      RAdd(Get(cur, VirtualKey), RSub(n, RAdd(r[1], r[2]))))

\* Lines 174-176: the current mapping after the top-up, from the sums r
\* that line 173 read.
TopUp(cur, r, n) ==
  IF RLess(RAdd(r[1], r[2]), n)
  THEN Put(cur, VirtualKey,
           RAdd(Get(cur, VirtualKey), RSub(n, RAdd(r[1], r[2]))))
  ELSE cur

EnsureBalance(L, n) ==
  [L EXCEPT !.current = TopUp(@, Sums(L), n), !.dirty = TRUE]

\* A GetN whose lookups create the entries they do not find.
GetNCreating(L, v) ==
  [L |-> [L EXCEPT !.history = Put(@, v, Get(@, v)),
                   !.current = Put(@, v, Get(@, v)),
                   !.cleared = Put(@, v, GetTime(@, v))],
   h |-> Get(L.history, v),
   c |-> Get(L.current, v),
   t |-> GetTime(L.cleared, v)]

\* GetN: what the call returns, and the ledger after it.  Indexing a map
\* with an absent key yields the zero value and stores nothing.
GetN(L, v) ==
  [L |-> L,
   h |-> Get(L.history, v),
   c |-> Get(L.current, v),
   t |-> GetTime(L.cleared, v)]

\* A decay that grows with the time elapsed.
DecayElapsed(h, c, interval, d) ==
  RAdd(RDiv(RMul(h, RInt(d)), RInt(interval)), c)

\* Line 122: the estimate before the interval has elapsed.
Decay(h, c, interval, d) ==
  RAdd(RDiv(RMul(h, RSub(RInt(interval), RInt(d))), RInt(interval)), c)

\* Line 124: the estimate once the interval has elapsed.
Scale(c, interval, d) == RMul(c, RDiv(RInt(interval), RInt(d)))

\* EstimateN, for an interval > 0.
EstimateN(L, v, interval, t) ==
  LET g == GetN(L, v)
      d == Sub(t, g.t)
  IN [L |-> g.L,
      r |-> IF d < interval THEN Decay(g.h, g.c, interval, d)
            ELSE Scale(g.c, interval, d)]

Estimate(L, s, interval, t) == EstimateN(L, fnvHash(s), interval, t)

\* EstimateV: the loop of lines 156-158 from element i on.
RECURSIVE EstimateV(_, _, _, _, _)
EstimateV(L, v, i, interval, t) ==
  IF i > Len(v) THEN [L |-> L, r |-> <<>>]
  ELSE LET e == Estimate(L, v[i], interval, t)
           rest == EstimateV(e.L, v, i + 1, interval, t)
       IN [L |-> rest.L, r |-> <<e.r>> \o rest.r]

\* Virtual: the history and the current cash of the reserve.
Virtual(L) == <<Get(L.history, VirtualKey), Get(L.current, VirtualKey)>>

\* Dirty
Dirty(L) == L.dirty

(***************************************************************************)
(* The binary codec.  A stream is a sequence of 8-byte words; a word is    *)
(* modelled by the value it encodes (big-endian, so that writing a value   *)
(* and reading the 8 bytes back gives the value again).                    *)
(***************************************************************************)
expectedMagic == "#opicdb#"

\* The version WriteTo writes and ReadFrom accepts.
Version == 1

\* v.Unix(): the whole seconds of a time.
Unix(t) == t \div TicksPerSec

\* The seconds of the stream taken for a count of ticks.
TimeUnixTicks(sec) == sec

\* time.Unix(sec, 0)
TimeUnix(sec) == sec * TicksPerSec

\* The orders in which a range loop may visit the keys of a map.
Orders(m) ==
  {ord \in [1 .. Cardinality(DOMAIN m) -> DOMAIN m] :
     \A i, j \in 1 .. Cardinality(DOMAIN m) : ord[i] = ord[j] => i = j}

RECURSIVE WriteEntries(_, _, _)
WriteEntries(m, ord, i) ==
  IF i > Len(ord) THEN <<>>
  ELSE <<ord[i], m[ord[i]]>> \o WriteEntries(m, ord, i + 1)

RECURSIVE WriteTimes(_, _, _)
WriteTimes(m, ord, i) ==
  IF i > Len(ord) THEN <<>>
  ELSE <<ord[i], Unix(m[ord[i]])>> \o WriteTimes(m, ord, i + 1)

\* WriteTo: the stream written for ledger L when the three range loops
\* visit the keys in the orders oc, oh and of.
WriteTo(L, oc, oh, of) ==
  <<expectedMagic, Version>>
    \o <<Len(oc)>> \o WriteEntries(L.current, oc, 1)
    \o <<Len(oh)>> \o WriteEntries(L.history, oh, 1)
    \o <<Len(of)>> \o WriteTimes(L.cleared, of, 1)

\* Every stream WriteTo may write for L.
Streams(L) ==
  {WriteTo(L, oc, oh, of) :
     oc \in Orders(L.current), oh \in Orders(L.history),
     of \in Orders(L.cleared)}

\* One of the three entry loops of ReadFrom: c entries are read from
\* position pos of stream f and stored in map m; isTime tells the loop of
\* lines 160-172 from the other two.
RECURSIVE ReadEntries(_, _, _, _, _)
ReadEntries(m, f, pos, c, isTime) ==
  IF c = 0 THEN [m |-> m, pos |-> pos, err |-> FALSE]
  ELSE IF pos + 1 > Len(f) THEN [m |-> m, pos |-> pos, err |-> TRUE]
  ELSE ReadEntries(
         Put(m, f[pos], IF isTime THEN TimeUnix(f[pos + 1]) ELSE f[pos + 1]),
         f, pos + 2, c - 1, isTime)

\* A count followed by its entries.
ReadSection(m, f, pos, isTime) ==
  IF pos > Len(f) THEN [m |-> m, pos |-> pos, err |-> TRUE]
  ELSE ReadEntries(m, f, pos + 1, f[pos], isTime)

\* A header check that leaves out the version test of line 111.
HeaderErrorNoVersion(f) ==
  \/ Len(f) < 1
  \/ f[1] /= expectedMagic
  \/ Len(f) < 2

\* Lines 95-113: the magic and the version are read and checked.
HeaderError(f) ==
  \/ Len(f) < 1
  \/ f[1] /= expectedMagic
  \/ Len(f) < 2
  \/ f[2] /= Version

\* ReadFrom: the ledger after the call on stream f, and whether the call
\* returned an error.
ReadFrom(L, f) ==
  IF HeaderError(f) THEN [L |-> L, err |-> TRUE]
  ELSE
    LET c == ReadSection(L.current, f, 3, FALSE)
        h == IF c.err THEN [m |-> L.history, pos |-> c.pos, err |-> TRUE]
             ELSE ReadSection(L.history, f, c.pos, FALSE)
        t == IF h.err THEN [m |-> L.cleared, pos |-> h.pos, err |-> TRUE]
             ELSE ReadSection(L.cleared, f, h.pos, TRUE)
    IN [L |-> [dirty |-> L.dirty, current |-> c.m, cleared |-> t.m,
               history |-> h.m],
        err |-> t.err]

\* A Load that does not look at what ReadFrom returns.
LoadUnchecked(L, file) ==
  IF ~file.exists THEN [L |-> L, err |-> TRUE]
  ELSE [L |-> [ReadFrom(L, file.data).L EXCEPT !.dirty = FALSE],
        err |-> FALSE]

\* Persistent.Load on a file: exists tells whether the open succeeds.
Load(L, file) ==
  IF ~file.exists THEN [L |-> L, err |-> TRUE]
  ELSE LET r == ReadFrom(L, file.data)
       IN IF r.err THEN r
          ELSE [L |-> [r.L EXCEPT !.dirty = FALSE], err |-> FALSE]

\* os.OpenFile at line 27: "ok", or the kind of error it returns.  The open
\* fails with "notexist" when there is no file at the path, and may fail
\* for another reason (denied) whether or not there is one.
OpenFile(file, denied) ==
  IF denied THEN "other"
  ELSE IF ~file.exists THEN "notexist"
  ELSE "ok"

\* Load(options): the Load that main calls with IgnoreMissing.  A missing
\* file is tolerated when the caller asks for it; everything else is the
\* Load above.
LoadWith(L, file, open, ignoreMissing) ==
  IF open = "notexist" /\ ignoreMissing THEN [L |-> L, err |-> FALSE]
  ELSE IF open /= "ok" THEN [L |-> L, err |-> TRUE]
  ELSE Load(L, file)

(***************************************************************************)
(* State.                                                                  *)
(***************************************************************************)
VARIABLES
  o,      \* the ledger of the running process
  disk,   \* the file at the canonical path: [exists, data]
  tmp,    \* the temporary file of the Save in progress: [exists, data]
  pc,     \* where the caller is: "idle" between calls, else a step of Save
  pre,    \* the ledger as it was when the last call was made
  last,   \* the last call: its name, its arguments and what it returned
  steps,  \* the number of ledger calls made
  saves,  \* the number of Save calls made
  loads,  \* the number of Load calls made
  seed,   \* whether the run is one Initialise of a new ledger, with a
          \* non-empty list of distinct identifiers, followed by Distribute
          \* and Finalise calls only, and the cash that Initialise injected
  src,    \* the ledger whose serialization the canonical file holds, and
          \* whether the file still is that serialization
  m,      \* the RWMutex: its writer (or "none") and its readers
  th,     \* the threads of the concurrent model: where each one is in its
          \* call, the call's arguments and its local variables
  calls,  \* the number of calls the threads have made
  unsaved \* whether a mutating call has completed since the ledger was
          \* last captured by a Save that succeeded

vars == <<o, disk, tmp, pc, pre, last, steps, saves, loads, seed, src,
          m, th, calls, unsaved>>

concVars == <<m, th, calls, unsaved>>

ledgerVars == <<o, pre, last, steps, seed>>
fileVars == <<disk, tmp, pc, saves, loads, src, concVars>>

NoCall == [op |-> "none", source |-> "", ids |-> <<>>, t |-> ZeroTime,
           cash |-> RZero, ret |-> RZero, err |-> FALSE,
           ignore |-> FALSE, open |-> "ok", interval |-> 0, res |-> <<>>]

NoFile == [exists |-> FALSE, data |-> <<>>]

Procs == {"p", "q"}

\* A thread between two calls.
Idle == [pc |-> "idle", op |-> "none", source |-> "", ids |-> <<>>,
         t |-> ZeroTime, nows |-> <<>>, n |-> RZero, c |-> RZero,
         r |-> <<RZero, RZero>>, v |-> RZero, f |-> <<>>, err |-> FALSE,
         since |-> FALSE]

Init ==
  /\ o = New
  /\ disk = NoFile
  /\ tmp = NoFile
  /\ pc = "idle"
  /\ pre = New
  /\ last = NoCall
  /\ steps = 0
  /\ saves = 0
  /\ loads = 0
  /\ seed = [state |-> "new", cash |-> RZero]
  /\ src = [valid |-> FALSE, L |-> New]
  /\ m = [w |-> "none", r |-> {}]
  /\ th = [p \in Procs |-> Idle]
  /\ calls = 0
  /\ unsaved = FALSE

\* No identifier occurs twice in the list.
Distinct(ids) == \A i, j \in 1 .. Len(ids) : ids[i] = ids[j] => i = j

\* The run leaves the scope of a single seeding.
Void == [state |-> "void", cash |-> RZero]

(***************************************************************************)
(* Calls on the ledger: at most max of them in a run, with identifier      *)
(* lists drawn from lists.                                                 *)
(***************************************************************************)
InitialiseCall(max, cashes, lists) ==
  /\ pc = "idle"
  /\ steps < max
  /\ \E cash \in cashes, in \in lists :
       /\ o' = Initialise(o, RInt(cash), in)
       /\ last' = [NoCall EXCEPT !.op = "Initialise", !.ids = in,
                                 !.cash = RInt(cash)]
       /\ seed' = IF seed.state = "new" /\ Len(in) > 0 /\ Distinct(in)
                  THEN [state |-> "seeded", cash |-> RInt(cash)]
                  ELSE Void
  /\ pre' = o
  /\ steps' = steps + 1
  /\ UNCHANGED fileVars

CallInitialise(max, lists) == InitialiseCall(max, 0 .. MaxCash, lists)

\* Distribute with a source among sources and outputs among lists; clock
\* holds the times time.Now() may return.
DistributeCall(max, sources, lists, clock) ==
  /\ pc = "idle"
  /\ steps < max
  /\ \E source \in sources, out \in lists, t \in Times :
       \E nows \in [1 .. Len(out) -> clock] :
         /\ o' = Distribute(o, source, out, t, nows)
         /\ last' = [NoCall EXCEPT !.op = "Distribute", !.source = source,
                                   !.ids = out, !.t = t,
                                   !.ret = DistributeRet(o, source)]
  /\ seed' = IF seed.state = "seeded" THEN seed ELSE Void
  /\ pre' = o
  /\ steps' = steps + 1
  /\ UNCHANGED fileVars

CallDistribute(max, lists) == DistributeCall(max, Idents, lists, Times)

CallFinalise(max, lists) ==
  /\ pc = "idle"
  /\ steps < max
  /\ \E in \in lists :
       /\ o' = Finalise(o, in)
       /\ last' = [NoCall EXCEPT !.op = "Finalise", !.ids = in]
  /\ seed' = IF seed.state = "seeded" THEN seed ELSE Void
  /\ pre' = o
  /\ steps' = steps + 1
  /\ UNCHANGED fileVars

CallEnsureBalance(max, lists) ==
  /\ pc = "idle"
  /\ steps < max
  /\ \E n \in 0 .. MaxCash + 1 :
       /\ o' = EnsureBalance(o, RInt(n))
       /\ last' = [NoCall EXCEPT !.op = "EnsureBalance", !.cash = RInt(n)]
  /\ seed' = Void
  /\ pre' = o
  /\ steps' = steps + 1
  /\ UNCHANGED fileVars

(***************************************************************************)
(* The sequential model of the ledger: one caller, one call at a time.     *)
(***************************************************************************)
Next ==
  \/ CallInitialise(MaxSteps, IdLists)
  \/ CallDistribute(MaxSteps, IdLists)
  \/ CallFinalise(MaxSteps, IdLists)
  \/ CallEnsureBalance(MaxSteps, IdLists)

Spec == Init /\ [][Next]_vars

(***************************************************************************)
(* The model of the worked example: three identifiers, seeded with the     *)
(* first one, two or three of them.                                        *)
(***************************************************************************)
ExIdents == {"a", "b", "c"}

ExSeeds == {<<"a">>, <<"a", "b">>, <<"a", "b", "c">>}

NextExample ==
  \/ InitialiseCall(MaxExSteps, 1 .. MaxExCash, ExSeeds)
  \/ DistributeCall(MaxExSteps, ExIdents, ListsOver(ExIdents, MaxExLen),
                    Times)

SpecExample == Init /\ [][NextExample]_vars

(***************************************************************************)
(* The read operations.                                                    *)
(***************************************************************************)
\* The times a caller passes to Estimate.
EstimateTimes == 0 .. MaxTime + 1

CallGet ==
  /\ pc = "idle"
  /\ steps < MaxReadSteps
  /\ \E s \in Idents :
       LET g == GetN(o, fnvHash(s))
       IN /\ o' = g.L
          /\ last' = [NoCall EXCEPT !.op = "Get", !.source = s,
                                    !.res = <<g.h, g.c, g.t>>]
  /\ pre' = o
  /\ steps' = steps + 1
  /\ seed' = Void
  /\ UNCHANGED fileVars

CallEstimate ==
  /\ pc = "idle"
  /\ steps < MaxReadSteps
  /\ \E s \in Idents, interval \in 1 .. MaxInterval, t \in EstimateTimes :
       LET e == Estimate(o, s, interval, t)
       IN /\ o' = e.L
          /\ last' = [NoCall EXCEPT !.op = "Estimate", !.source = s,
                                    !.interval = interval, !.t = t,
                                    !.ret = e.r]
  /\ pre' = o
  /\ steps' = steps + 1
  /\ seed' = Void
  /\ UNCHANGED fileVars

CallEstimateV ==
  /\ pc = "idle"
  /\ steps < MaxReadSteps
  /\ \E v \in ListsUpTo(MaxReadLen), interval \in 1 .. MaxInterval,
        t \in EstimateTimes :
       LET e == EstimateV(o, v, 1, interval, t)
       IN /\ o' = e.L
          /\ last' = [NoCall EXCEPT !.op = "EstimateV", !.ids = v,
                                    !.interval = interval, !.t = t,
                                    !.res = e.r]
  /\ pre' = o
  /\ steps' = steps + 1
  /\ seed' = Void
  /\ UNCHANGED fileVars

CallVirtual ==
  /\ pc = "idle"
  /\ steps < MaxReadSteps
  /\ last' = [NoCall EXCEPT !.op = "Virtual", !.res = Virtual(o)]
  /\ pre' = o
  /\ steps' = steps + 1
  /\ seed' = Void
  /\ UNCHANGED <<o, fileVars>>

CallSums ==
  /\ pc = "idle"
  /\ steps < MaxReadSteps
  /\ last' = [NoCall EXCEPT !.op = "Sums", !.res = Sums(o)]
  /\ pre' = o
  /\ steps' = steps + 1
  /\ seed' = Void
  /\ UNCHANGED <<o, fileVars>>

CallDirty ==
  /\ pc = "idle"
  /\ steps < MaxReadSteps
  /\ last' = [NoCall EXCEPT !.op = "Dirty", !.err = Dirty(o)]
  /\ pre' = o
  /\ steps' = steps + 1
  /\ seed' = Void
  /\ UNCHANGED <<o, fileVars>>

\* The model of the read operations: a caller mixes them with the mutating
\* calls.
NextRead ==
  \/ CallInitialise(MaxReadSteps, ListsUpTo(MaxReadLen))
  \/ CallDistribute(MaxReadSteps, ListsUpTo(MaxReadLen))
  \/ CallFinalise(MaxReadSteps, ListsUpTo(MaxReadLen))
  \/ CallGet
  \/ CallEstimate
  \/ CallEstimateV
  \/ CallVirtual
  \/ CallSums
  \/ CallDirty

SpecRead == Init /\ [][NextRead]_vars

(***************************************************************************)
(* Persistence: Save step by step, Load, the process stopping at any step  *)
(* and starting again, and damage to the file from outside the process.    *)
(***************************************************************************)
\* Save returns err; the temporary file is no longer used.
SaveReturn(err) ==
  /\ pc' = "idle"
  /\ tmp' = NoFile
  /\ last' = [NoCall EXCEPT !.op = "Save", !.err = err]
  /\ pre' = o

\* Line 45: ioutil.TempFile.
SaveBegin(max) ==
  /\ pc = "idle"
  /\ saves < max
  /\ saves' = saves + 1
  /\ \/ /\ tmp' = [exists |-> TRUE, data |-> <<>>]
        /\ pc' = "write"
        /\ last' = [NoCall EXCEPT !.op = "SaveBegin"]
        /\ pre' = o
     \/ SaveReturn(TRUE)
  /\ UNCHANGED <<o, disk, steps, loads, seed, src>>
  /\ UNCHANGED concVars

\* A Save that writes the stream to the canonical path itself.
WriteInPlace(d, t, f) == [disk |-> [exists |-> TRUE, data |-> f], tmp |-> t]

\* Lines 45-51: the words f go to the file TempFile created; d is the
\* canonical file, t the temporary one.
WriteFile(d, t, f) == [disk |-> d, tmp |-> [t EXCEPT !.data = f]]

\* Line 51: WriteTo writes the stream to the temporary file; the write may
\* fail after any number of words.
SaveWrite ==
  /\ pc = "write"
  /\ \E f \in Streams(o) :
       \/ /\ tmp' = WriteFile(disk, tmp, f).tmp
          /\ disk' = WriteFile(disk, tmp, f).disk
          /\ pc' = "close"
          /\ UNCHANGED <<last, pre>>
       \/ \E k \in 0 .. Len(f) - 1 :
            /\ disk' = WriteFile(disk, tmp, SubSeq(f, 1, k)).disk
            /\ SaveReturn(TRUE)
  /\ UNCHANGED <<o, steps, saves, loads, seed, src>>
  /\ UNCHANGED concVars

\* Line 55: Close.
SaveClose ==
  /\ pc = "close"
  /\ \/ pc' = "rename" /\ UNCHANGED <<tmp, last, pre>>
     \/ SaveReturn(TRUE)
  /\ UNCHANGED <<o, disk, steps, saves, loads, seed, src>>
  /\ UNCHANGED concVars

\* Line 59: os.Rename puts the temporary file at the canonical path in one
\* step, or fails and leaves the canonical path alone.
SaveRename ==
  /\ pc = "rename"
  /\ \/ /\ disk' = tmp
        /\ src' = [valid |-> TRUE, L |-> o]
        /\ pc' = "clean"
        /\ UNCHANGED <<tmp, last, pre>>
     \/ SaveReturn(TRUE) /\ UNCHANGED <<disk, src>>
  /\ UNCHANGED <<o, steps, saves, loads, seed>>
  /\ UNCHANGED concVars

\* Lines 63-65.
SaveClean ==
  /\ pc = "clean"
  /\ o' = [o EXCEPT !.dirty = FALSE]
  /\ SaveReturn(FALSE)
  /\ UNCHANGED <<disk, steps, saves, loads, seed, src>>
  /\ UNCHANGED concVars

\* A step of Save, at most max calls of it in a run.
SaveStep(max) ==
  SaveBegin(max) \/ SaveWrite \/ SaveClose \/ SaveRename \/ SaveClean

\* Lines 26-40.
CallLoad ==
  /\ pc = "idle"
  /\ loads < MaxLoads
  /\ loads' = loads + 1
  /\ o' = Load(o, disk).L
  /\ last' = [NoCall EXCEPT !.op = "Load", !.err = Load(o, disk).err]
  /\ pre' = o
  /\ seed' = Void
  /\ UNCHANGED <<disk, tmp, pc, steps, saves, src>>
  /\ UNCHANGED concVars

\* The process stops, at any step, and a new one starts with NewPersistent.
Restart ==
  /\ o' = New
  /\ pre' = New
  /\ pc' = "idle"
  /\ tmp' = NoFile
  /\ last' = [NoCall EXCEPT !.op = "Restart"]
  /\ seed' = Void
  /\ UNCHANGED <<disk, steps, saves, loads, src>>
  /\ UNCHANGED concVars

\* What damage from outside can make of a stream: any strict prefix, other
\* bytes for the magic, another version number.
Damaged(f) ==
  {SubSeq(f, 1, k) : k \in 0 .. Len(f) - 1}
    \cup {[f EXCEPT ![1] = "#opicdb?"]}
    \cup {[f EXCEPT ![2] = v] : v \in {0, 2}}

Damage ==
  /\ pc = "idle"
  /\ src.valid
  /\ \E f \in Damaged(disk.data) : disk' = [disk EXCEPT !.data = f]
  /\ src' = [src EXCEPT !.valid = FALSE]
  /\ last' = [NoCall EXCEPT !.op = "Damage"]
  /\ pre' = o
  /\ UNCHANGED <<o, tmp, pc, steps, saves, loads, seed>>
  /\ UNCHANGED concVars

NextDisk ==
  \/ CallInitialise(MaxDiskSteps, ListsUpTo(MaxDiskLen))
  \/ CallDistribute(MaxDiskSteps, ListsUpTo(MaxDiskLen))
  \/ CallFinalise(MaxDiskSteps, ListsUpTo(MaxDiskLen))
  \/ SaveStep(MaxSaves)
  \/ CallLoad
  \/ Restart

SpecDisk == Init /\ [][NextDisk]_vars

\* The model of damaged files: a file is saved, damaged and loaded.
NextDamage ==
  \/ CallInitialise(MaxDiskSteps, ListsUpTo(MaxDiskLen))
  \/ CallDistribute(MaxDiskSteps, ListsUpTo(MaxDiskLen))
  \/ CallFinalise(MaxDiskSteps, ListsUpTo(MaxDiskLen))
  \/ SaveStep(MaxDamageSaves)
  \/ Damage
  \/ CallLoad
  \/ Restart

SpecDamage == Init /\ [][NextDamage]_vars

\* main, line 40: Load is called with its options.
CallLoadWith ==
  /\ pc = "idle"
  /\ loads < MaxLoads
  /\ loads' = loads + 1
  /\ \E ignoreMissing \in BOOLEAN, denied \in BOOLEAN :
       LET open == OpenFile(disk, denied)
           r == LoadWith(o, disk, open, ignoreMissing)
       IN /\ o' = r.L
          /\ last' = [NoCall EXCEPT !.op = "LoadWith", !.err = r.err,
                                    !.ignore = ignoreMissing, !.open = open]
  /\ pre' = o
  /\ seed' = Void
  /\ UNCHANGED <<disk, tmp, pc, steps, saves, src>>
  /\ UNCHANGED concVars

\* The model of Load with options: the file is missing, whole or damaged.
NextLoad ==
  \/ CallInitialise(MaxDiskSteps, ListsUpTo(MaxDiskLen))
  \/ CallDistribute(MaxDiskSteps, ListsUpTo(MaxDiskLen))
  \/ SaveStep(MaxDamageSaves)
  \/ Damage
  \/ CallLoadWith
  \/ Restart

SpecLoad == Init /\ [][NextLoad]_vars

(***************************************************************************)
(* The concurrent model: threads call the ledger and Save at the same      *)
(* time.  A thread takes one step at a time; steps of different threads    *)
(* interleave wherever the mutex lets them.                                *)
(***************************************************************************)
\* The calls a thread may start.
ConcCalls ==
  {[Idle EXCEPT !.pc = "lock", !.op = "Initialise", !.n = RInt(cash),
                !.ids = in] :
     cash \in 1 .. MaxConcCash, in \in ListsUpTo(MaxConcLen)}
  \cup
  UNION {{[Idle EXCEPT !.pc = "lock", !.op = "Distribute",
                       !.source = source, !.ids = out, !.t = t,
                       !.nows = nows] :
            nows \in [1 .. Len(out) -> Times]} :
         source \in Idents, out \in ListsUpTo(MaxConcLen), t \in Times}
  \cup
  {[Idle EXCEPT !.pc = "lock", !.op = "Finalise", !.ids = in] :
     in \in ListsUpTo(MaxConcLen)}
  \cup
  {[Idle EXCEPT !.pc = "rlock", !.op = "EnsureBalance", !.n = RInt(n)] :
     n \in 0 .. MaxConcCash + 1}
  \cup
  {[Idle EXCEPT !.pc = "temp", !.op = "Save"]}

\* A thread starts a call.
CallBy(p) ==
  /\ th[p].pc = "idle"
  /\ calls < MaxConcCalls
  /\ calls' = calls + 1
  /\ \E c \in ConcCalls : th' = [th EXCEPT ![p] = c]
  /\ UNCHANGED <<o, disk, tmp, pc, pre, last, steps, saves, loads, seed, src,
                 m, unsaved>>

\* A mutating call of thread p returns: every Save that has captured the
\* ledger and not yet returned has missed the change.
Returned(p) ==
  [q \in Procs |-> IF q = p THEN Idle ELSE [th[q] EXCEPT !.since = TRUE]]

\* A lock that does not wait for the mutex to be free.
LockWithoutWaitBy(p) ==
  /\ th[p].pc = "lock"
  /\ m' = [m EXCEPT !.w = p]
  /\ th' = [th EXCEPT ![p].pc = "body"]
  /\ UNCHANGED <<o, disk, tmp, pc, pre, last, steps, saves, loads, seed, src,
                 calls, unsaved>>

\* o.m.Lock()
LockBy(p) ==
  /\ th[p].pc = "lock"
  /\ m.w = "none"
  /\ m.r = {}
  /\ m' = [m EXCEPT !.w = p]
  /\ th' = [th EXCEPT ![p].pc = "body"]
  /\ UNCHANGED <<o, disk, tmp, pc, pre, last, steps, saves, loads, seed, src,
                 calls, unsaved>>

\* opic.go, lines 41-47.
InitialiseBy(p) ==
  /\ th[p].pc = "body"
  /\ th[p].op = "Initialise"
  /\ o' = Initialise(o, th[p].n, th[p].ids)
  /\ th' = [th EXCEPT ![p].pc = "unlock"]
  /\ UNCHANGED <<disk, tmp, pc, pre, last, steps, saves, loads, seed, src,
                 m, calls, unsaved>>

\* opic.go, lines 67-79.
SharesBy(p) ==
  /\ th[p].pc = "body"
  /\ th[p].op = "Distribute"
  /\ o' = DistributeShares(o, th[p].source, th[p].ids, th[p].nows)
  /\ th' = [th EXCEPT ![p].pc = "skim",
                      ![p].c = Get(o.current, fnvHash(th[p].source))]
  /\ UNCHANGED <<disk, tmp, pc, pre, last, steps, saves, loads, seed, src,
                 m, calls, unsaved>>

\* opic.go, lines 81-88.
SkimBy(p) ==
  /\ th[p].pc = "skim"
  /\ o' = DistributeSkim(o, th[p].source, th[p].c, th[p].t)
  /\ th' = [th EXCEPT ![p].pc = "unlock"]
  /\ UNCHANGED <<disk, tmp, pc, pre, last, steps, saves, loads, seed, src,
                 m, calls, unsaved>>

\* opic.go, lines 98-104.
FinaliseBy(p) ==
  /\ th[p].pc = "body"
  /\ th[p].op = "Finalise"
  /\ o' = Finalise(o, th[p].ids)
  /\ th' = [th EXCEPT ![p].pc = "unlock"]
  /\ UNCHANGED <<disk, tmp, pc, pre, last, steps, saves, loads, seed, src,
                 m, calls, unsaved>>

\* The deferred o.m.Unlock(), and the return.
UnlockBy(p) ==
  /\ th[p].pc = "unlock"
  /\ m' = [m EXCEPT !.w = "none"]
  /\ th' = Returned(p)
  /\ unsaved' = TRUE
  /\ UNCHANGED <<o, disk, tmp, pc, pre, last, steps, saves, loads, seed, src,
                 calls>>

\* o.m.RLock(), in Sums and in WriteTo.
RLockBy(p) ==
  /\ th[p].pc = "rlock"
  /\ m.w = "none"
  /\ m' = [m EXCEPT !.r = @ \cup {p}]
  /\ th' = [th EXCEPT ![p].pc = "read"]
  /\ UNCHANGED <<o, disk, tmp, pc, pre, last, steps, saves, loads, seed, src,
                 calls, unsaved>>

\* opic.go, lines 196-203: Sums, called at line 173.
SumsBy(p) ==
  /\ th[p].pc = "read"
  /\ th[p].op = "EnsureBalance"
  /\ th' = [th EXCEPT ![p].pc = "runlock", ![p].r = Sums(o)]
  /\ UNCHANGED <<o, disk, tmp, pc, pre, last, steps, saves, loads, seed, src,
                 m, calls, unsaved>>

\* part_002, line 51: WriteTo writes the stream to the temporary file, or
\* fails.
WriteToBy(p) ==
  /\ th[p].pc = "read"
  /\ th[p].op = "Save"
  /\ \/ \E f \in Streams(o) :
          th' = [th EXCEPT ![p].pc = "runlock", ![p].f = f,
                           ![p].since = FALSE]
     \/ th' = [th EXCEPT ![p].pc = "runlock", ![p].err = TRUE]
  /\ UNCHANGED <<o, disk, tmp, pc, pre, last, steps, saves, loads, seed, src,
                 m, calls, unsaved>>

\* The deferred o.m.RUnlock(); Sums returns to line 174, WriteTo to line 51.
RUnlockBy(p) ==
  /\ th[p].pc = "runlock"
  /\ m' = [m EXCEPT !.r = @ \ {p}]
  /\ th' = [th EXCEPT ![p] =
              IF th[p].op = "EnsureBalance" THEN [@ EXCEPT !.pc = "test"]
              ELSE IF th[p].err THEN Idle
              ELSE [@ EXCEPT !.pc = "close"]]
  /\ UNCHANGED <<o, disk, tmp, pc, pre, last, steps, saves, loads, seed, src,
                 calls, unsaved>>

\* opic.go, line 174.
TestBy(p) ==
  /\ th[p].pc = "test"
  /\ th' = [th EXCEPT ![p].pc =
              IF RLess(RAdd(th[p].r[1], th[p].r[2]), th[p].n)
              THEN "load" ELSE "dirty"]
  /\ UNCHANGED <<o, disk, tmp, pc, pre, last, steps, saves, loads, seed, src,
                 m, calls, unsaved>>

\* opic.go, line 175, right-hand side: o.current[0] is read.
LoadReserveBy(p) ==
  /\ th[p].pc = "load"
  /\ th' = [th EXCEPT ![p].pc = "store", ![p].v = Get(o.current, VirtualKey)]
  /\ UNCHANGED <<o, disk, tmp, pc, pre, last, steps, saves, loads, seed, src,
                 m, calls, unsaved>>

\* opic.go, line 175, the assignment: o.current[0] is written.
StoreReserveBy(p) ==
  /\ th[p].pc = "store"
  /\ o' = [o EXCEPT !.current =
             Put(@, VirtualKey,
                 RAdd(th[p].v,
                      RSub(th[p].n, RAdd(th[p].r[1], th[p].r[2]))))]
  /\ th' = [th EXCEPT ![p].pc = "dirty"]
  /\ UNCHANGED <<disk, tmp, pc, pre, last, steps, saves, loads, seed, src,
                 m, calls, unsaved>>

\* opic.go, line 178, and the return.
DirtyBy(p) ==
  /\ th[p].pc = "dirty"
  /\ o' = [o EXCEPT !.dirty = TRUE]
  /\ th' = Returned(p)
  /\ unsaved' = TRUE
  /\ UNCHANGED <<disk, tmp, pc, pre, last, steps, saves, loads, seed, src,
                 m, calls>>

\* part_002, line 45: TempFile succeeds or fails.
TempBy(p) ==
  /\ th[p].pc = "temp"
  /\ \/ th' = [th EXCEPT ![p].pc = "rlock"]
     \/ th' = [th EXCEPT ![p] = Idle]
  /\ UNCHANGED <<o, disk, tmp, pc, pre, last, steps, saves, loads, seed, src,
                 m, calls, unsaved>>

\* part_002, line 55: Close succeeds or fails.
CloseBy(p) ==
  /\ th[p].pc = "close"
  /\ \/ th' = [th EXCEPT ![p].pc = "rename"]
     \/ th' = [th EXCEPT ![p] = Idle]
  /\ UNCHANGED <<o, disk, tmp, pc, pre, last, steps, saves, loads, seed, src,
                 m, calls, unsaved>>

\* part_002, line 59: Rename succeeds or fails.
RenameBy(p) ==
  /\ th[p].pc = "rename"
  /\ \/ /\ disk' = [exists |-> TRUE, data |-> th[p].f]
        /\ th' = [th EXCEPT ![p].pc = "clean"]
     \/ /\ th' = [th EXCEPT ![p] = Idle]
        /\ UNCHANGED disk
  /\ UNCHANGED <<o, tmp, pc, pre, last, steps, saves, loads, seed, src,
                 m, calls, unsaved>>

\* part_002, lines 63-65: the flag is cleared and Save returns nil.  What
\* this Save captured is now saved; a change is unsaved iff a mutating call
\* has returned since the capture.
CleanBy(p) ==
  /\ th[p].pc = "clean"
  /\ o' = [o EXCEPT !.dirty = FALSE]
  /\ unsaved' = th[p].since
  /\ th' = [th EXCEPT ![p] = Idle]
  /\ UNCHANGED <<disk, tmp, pc, pre, last, steps, saves, loads, seed, src,
                 m, calls>>

NextConc ==
  \E p \in Procs :
    \/ CallBy(p)
    \/ LockBy(p)
    \/ InitialiseBy(p)
    \/ SharesBy(p)
    \/ SkimBy(p)
    \/ FinaliseBy(p)
    \/ UnlockBy(p)
    \/ RLockBy(p)
    \/ SumsBy(p)
    \/ WriteToBy(p)
    \/ RUnlockBy(p)
    \/ TestBy(p)
    \/ LoadReserveBy(p)
    \/ StoreReserveBy(p)
    \/ DirtyBy(p)
    \/ TempBy(p)
    \/ CloseBy(p)
    \/ RenameBy(p)
    \/ CleanBy(p)

SpecConc == Init /\ [][NextConc]_vars

(***************************************************************************)
(* Concurrent Distribute calls: the ledger is seeded by one caller, then   *)
(* every thread calls Distribute once, all at the same time.               *)
(***************************************************************************)
\* The ledger is seeded before any thread has started.
SeedInitialise ==
  /\ calls = 0
  /\ InitialiseCall(MaxDistSteps, 1 .. MaxCash, ListsUpTo(MaxDistLen))

SeedDistribute ==
  /\ calls = 0
  /\ DistributeCall(MaxDistSteps, Idents, ListsUpTo(MaxDistLen), Times)

\* Thread p calls Distribute.  pre keeps the ledger as it was when the
\* first of the concurrent calls was made.
StartDistributeBy(p) ==
  /\ th[p].pc = "idle"
  /\ \E source \in Idents, out \in ListsUpTo(MaxDistLen), t \in Times :
       \E nows \in [1 .. Len(out) -> Times] :
         th' = [th EXCEPT ![p] =
                  [Idle EXCEPT !.pc = "lock", !.op = "Distribute",
                               !.source = source, !.ids = out, !.t = t,
                               !.nows = nows]]
  /\ calls' = calls + 1
  /\ pre' = IF calls = 0 THEN o ELSE pre
  /\ last' = NoCall
  /\ UNCHANGED <<o, disk, tmp, pc, steps, saves, loads, seed, src, m,
                 unsaved>>

\* The deferred o.m.Unlock() of Distribute, and the return of c; the thread
\* keeps the call and its result.
ReturnBy(p) ==
  /\ th[p].pc = "unlock"
  /\ m' = [m EXCEPT !.w = "none"]
  /\ th' = [th EXCEPT ![p].pc = "done"]
  /\ unsaved' = TRUE
  /\ UNCHANGED <<o, disk, tmp, pc, pre, last, steps, saves, loads, seed, src,
                 calls>>

NextDist ==
  \/ SeedInitialise
  \/ SeedDistribute
  \/ \E p \in Procs :
       \/ StartDistributeBy(p)
       \/ LockBy(p)
       \/ SharesBy(p)
       \/ SkimBy(p)
       \/ ReturnBy(p)

SpecDist == Init /\ [][NextDist]_vars

(***************************************************************************)
(* Properties of the sequential model.                                     *)
(***************************************************************************)
\* The identifiers of a list, as a set of keys.
KeysOf(ids) == {fnvHash(ids[i]) : i \in 1 .. Len(ids)}

\* C1: Distribute conserves circulating cash.  For every source and every
\* output list, the sum of all current values right after Distribute equals
\* the sum right before the call.
DistributeConservesCurrent ==
  last.op = "Distribute" => SumMap(o.current) = SumMap(pre.current)

\* C2: global conservation.  After a new ledger is seeded by
\* Initialise(C, S) with S non-empty, every state reached by further
\* Distribute and Finalise calls has the sum of current[k] + history[k]
\* over all keys equal to C.
GlobalConservation ==
  seed.state = "seeded" =>
    RAdd(SumMap(o.history), SumMap(o.current)) = seed.cash

\* C3: non-negativity.  After any sequence of Initialise (cash >= 0),
\* Distribute, Finalise and EnsureBalance calls, current[k] >= 0 and
\* history[k] >= 0 for every key k, the reserved key 0 included.
NonNegativity ==
  /\ \A k \in DOMAIN o.current : RLeq(RZero, o.current[k])
  /\ \A k \in DOMAIN o.history : RLeq(RZero, o.history[k])

\* A state for C3: EnsureBalance has just topped up a reserve that a
\* Distribute had skimmed, and some identifier holds history.
NonNegativityWitness ==
  /\ last.op = "EnsureBalance"
  /\ RLess(RZero, Get(pre.current, VirtualKey))
  /\ RLess(Get(pre.current, VirtualKey), Get(o.current, VirtualKey))
  /\ \E k \in DOMAIN o.history : RLess(RZero, o.history[k])

\* C12: Initialise with an empty identifier list is rejected with an error
\* before any shared state is changed: the call returns an error, the three
\* mappings and the dirty flag are as they were, and no non-finite cash
\* value is stored.  (Initialise has no result in the source, so the call
\* never reports an error.)
InitialiseEmptyRejected ==
  (last.op = "Initialise" /\ last.ids = <<>>) =>
    /\ last.err
    /\ o = pre
    /\ \A k \in DOMAIN o.current : o.current[k] /= NonFinite

\* C13: for every non-empty identifier list S and every cash C > 0, after
\* Initialise(C, S) on a ledger without entries the sum of all current
\* values is C, the sum of all history values is 0, and each identifier of
\* S holds C divided by the number of identifiers passed.
InitialiseSums ==
  (/\ last.op = "Initialise"
   /\ pre.current = EmptyMap
   /\ pre.history = EmptyMap
   /\ Len(last.ids) > 0
   /\ RLess(RZero, last.cash)) =>
    /\ Sums(o)[2] = last.cash
    /\ Sums(o)[1] = RZero
    /\ \A i \in 1 .. Len(last.ids) :
         Get(o.current, fnvHash(last.ids[i]))
           = RDivInt(last.cash, Len(last.ids))

\* C14: EnsureBalance(target) is a no-op whenever the sum of history plus
\* the sum of current is at least target: the mappings and the dirty flag
\* are as they were.  Otherwise it increases current[0] by exactly
\* target - (sum of history + sum of current) and changes no other entry.
EnsureBalanceFrame ==
  last.op = "EnsureBalance" =>
    LET total == RAdd(SumMap(pre.history), SumMap(pre.current))
    IN IF RLeq(last.cash, total)
       THEN o = pre
       ELSE /\ Get(o.current, VirtualKey)
                 = RAdd(Get(pre.current, VirtualKey),
                        RSub(last.cash, total))
            /\ \A k \in (DOMAIN o.current \cup DOMAIN pre.current)
                        \ {VirtualKey} :
                 /\ k \in DOMAIN o.current
                 /\ k \in DOMAIN pre.current
                 /\ o.current[k] = pre.current[k]
            /\ o.history = pre.history
            /\ o.cleared = pre.cleared

\* C15: Finalise moves cash without losing it.  For every identifier list,
\* of any length and with any contents, after Finalise each listed
\* identifier has current = 0 and its history holds the cash that was in
\* its current before the call; cleared is unchanged for every key, and the
\* entries of identifiers that are not listed are unchanged.
FinaliseMoves ==
  last.op = "Finalise" =>
    /\ \A k \in KeysOf(last.ids) :
         /\ Get(o.current, k) = RZero
         /\ Get(o.history, k) = Get(pre.current, k)
    /\ o.cleared = pre.cleared
    /\ \A k \in (DOMAIN o.current \cup DOMAIN pre.current)
                \ KeysOf(last.ids) :
         /\ k \in DOMAIN o.current
         /\ k \in DOMAIN pre.current
         /\ o.current[k] = pre.current[k]
    /\ \A k \in (DOMAIN o.history \cup DOMAIN pre.history)
                \ KeysOf(last.ids) :
         /\ k \in DOMAIN o.history
         /\ k \in DOMAIN pre.history
         /\ o.history[k] = pre.history[k]

\* The number of times key k occurs in the list ids.
Occurrences(ids, k) ==
  Cardinality({i \in 1 .. Len(ids) : fnvHash(ids[i]) = k})

\* The ledger after Initialise(3, [a, b, c]) on a new ledger.
ExampleSeeded(L) ==
  /\ L.current = [k \in {1, 2, 3} |-> RInt(1)]
  /\ L.history = EmptyMap
  /\ L.cleared = EmptyMap

\* C17: the state after Distribute(s, O, t) for a source s not in O, with
\* c = current[s] and v = current[0] before the call.  Every output gains
\* c/(|O|+1) per occurrence in O; the reserve becomes v' - d and current[s]
\* becomes d, where v' = v + c/(|O|+1) and d = v'/(N+1), N being the
\* number of entries of current at the skim (the outputs and key 0
\* created); history[s] = c, cleared[s] = t, the call returns c and the
\* ledger is dirty.  Initialise(3, [a, b, c]) then Distribute(a, [b], t)
\* gives b = 1.5, reserve = 0.4, a = 0.1, history[a] = 1, cleared[a] = t.
DistributePost ==
  (last.op = "Distribute" /\ fnvHash(last.source) \notin KeysOf(last.ids)) =>
    LET s == fnvHash(last.source)
        c == Get(pre.current, s)
        v == Get(pre.current, VirtualKey)
        share == RDivInt(c, Len(last.ids) + 1)
        v1 == RAdd(v, share)
        N == Cardinality(DOMAIN pre.current \cup {VirtualKey}
                           \cup KeysOf(last.ids))
        d == RDivInt(v1, N + 1)
    IN /\ \A k \in KeysOf(last.ids) :
            Get(o.current, k)
              = RAdd(Get(pre.current, k),
                     RMul(share, RInt(Occurrences(last.ids, k))))
       /\ Get(o.current, VirtualKey) = RSub(v1, d)
       /\ Get(o.current, s) = d
       /\ Get(o.history, s) = c
       /\ GetTime(o.cleared, s) = last.t
       /\ last.ret = c
       /\ o.dirty
       /\ (ExampleSeeded(pre) /\ last.source = "a" /\ last.ids = <<"b">>) =>
            /\ o.current[2] = <<3, 2>>
            /\ o.current[VirtualKey] = <<2, 5>>
            /\ o.current[1] = <<1, 10>>
            /\ o.history[1] = <<1, 1>>

\* A state for C17: the worked example.  Distribute(a, [b], t) has been
\* called on the ledger that Initialise(3, [a, b, c]) made.
DistributePostWitness ==
  /\ ExampleSeeded(pre)
  /\ last.op = "Distribute"
  /\ last.source = "a"
  /\ last.ids = <<"b">>
  /\ o.current = (0 :> <<2, 5>>) @@ (1 :> <<1, 10>>) @@ (2 :> <<3, 2>>)
                    @@ (3 :> <<1, 1>>)

\* A state for C17: a Distribute with a repeated output on a ledger whose
\* reserve and source hold cash.
DistributePostGeneral ==
  /\ last.op = "Distribute"
  /\ fnvHash(last.source) \notin KeysOf(last.ids)
  /\ Len(last.ids) = 2
  /\ last.ids[1] = last.ids[2]
  /\ RLess(RZero, Get(pre.current, VirtualKey))
  /\ RLess(RZero, last.ret)

(***************************************************************************)
(* Properties of the read operations.                                      *)
(***************************************************************************)
\* C16: Estimate is continuous at the end of the interval.  When the time
\* elapsed d = observedTime - cleared equals the interval exactly, the two
\* branches of the formula give the same value, the current cash c of the
\* identifier, and Estimate returns c.
EstimateBoundary ==
  LET k == fnvHash(last.source)
      h == Get(o.history, k)
      c == Get(o.current, k)
      d == Sub(last.t, GetTime(o.cleared, k))
  IN (last.op = "Estimate" /\ d = last.interval) =>
       /\ last.ret = c
       /\ Decay(h, c, last.interval, d) = c
       /\ Scale(c, last.interval, d) = c

\* A state for C16: Estimate has been called exactly one interval after
\* the identifier was cleared, the identifier holding history and current
\* cash.
EstimateBoundaryWitness ==
  /\ last.op = "Estimate"
  /\ fnvHash(last.source) \in DOMAIN o.cleared
  /\ last.t - o.cleared[fnvHash(last.source)] = last.interval
  /\ RLess(RZero, Get(o.history, fnvHash(last.source)))
  /\ RLess(RZero, Get(o.current, fnvHash(last.source)))
  /\ last.ret = Get(o.current, fnvHash(last.source))

\* The calls that only read the ledger.
ReadOps == {"Get", "Estimate", "EstimateV", "Virtual", "Sums", "Dirty"}

\* Key k has no entry in any of the three mappings of L.
Absent(L, k) ==
  /\ k \notin DOMAIN L.current
  /\ k \notin DOMAIN L.history
  /\ k \notin DOMAIN L.cleared

\* C19: the read operations have no effect on the ledger.  Get, Estimate
\* and its batch variant, Virtual, Sums and Dirty, on keys present or
\* absent, leave current, history, cleared and the dirty flag as they
\* were; Get of an absent key returns (0, 0, zero time) and creates no
\* entry, so the number of entries a later skim counts is not changed.
ReadsHaveNoEffect ==
  last.op \in ReadOps =>
    /\ o.current = pre.current
    /\ o.history = pre.history
    /\ o.cleared = pre.cleared
    /\ o.dirty = pre.dirty
    /\ Cardinality(DOMAIN o.current) = Cardinality(DOMAIN pre.current)
    /\ (last.op = "Get" /\ Absent(pre, fnvHash(last.source))) =>
         /\ last.res = <<RZero, RZero, ZeroTime>>
         /\ Absent(o, fnvHash(last.source))

\* A state for C19: Get has been called for an identifier without entries
\* on a ledger that holds entries of another identifier and of the
\* reserve.
ReadsHaveNoEffectWitness ==
  /\ last.op = "Get"
  /\ Absent(pre, fnvHash(last.source))
  /\ VirtualKey \in DOMAIN o.current
  /\ \E s \in Idents : fnvHash(s) \in DOMAIN o.current

(***************************************************************************)
(* Properties of the persistence model.                                    *)
(***************************************************************************)
Keys == {VirtualKey} \cup {fnvHash(s) : s \in Idents}

\* The last call was a Load into a ledger with no entries.
LoadedIntoEmpty ==
  /\ last.op = "Load"
  /\ pre.current = EmptyMap
  /\ pre.history = EmptyMap
  /\ pre.cleared = EmptyMap

\* A time with its fraction of a second dropped; the zero time stays.
WholeSeconds(t) == IF t = ZeroTime THEN ZeroTime ELSE t - (t % TicksPerSec)

\* C6: Save is atomic with respect to the canonical file.  At every step of
\* Save, a stop of the process or an error at any point included, the
\* canonical file is left as it was, except at the rename, which puts a
\* complete serialization of the ledger there.
SaveAtomic ==
  [][(pc /= "idle" \/ pc' /= "idle") =>
       \/ disk' = disk
       \/ /\ pc = "rename"
          /\ pc' = "clean"
          /\ disk'.exists
          /\ disk'.data \in Streams(o)]_vars

\* A state for C6: the temporary file holds the complete new serialization,
\* the rename has not happened, and the canonical file still holds the
\* complete serialization of an earlier, different ledger.
SaveAtomicWitness ==
  /\ pc = "rename"
  /\ tmp.data \in Streams(o)
  /\ disk.exists
  /\ src.valid
  /\ disk.data \in Streams(src.L)
  /\ disk.data \notin Streams(o)

\* C7 as claimed: a ledger serialized and then deserialized into a new empty
\* ledger gives the same Get result (history, current, cleared time) for
\* every key and the same Sums, whatever the order of the entries.
RoundTripExact ==
  (LoadedIntoEmpty /\ ~last.err /\ src.valid) =>
    /\ \A k \in Keys :
         /\ Get(o.history, k) = Get(src.L.history, k)
         /\ Get(o.current, k) = Get(src.L.current, k)
         /\ GetTime(o.cleared, k) = GetTime(src.L.cleared, k)
    /\ Sums(o) = Sums(src.L)

\* C7 as amended: history, current and Sums are the same, and the cleared
\* time of every key is the original one cut to whole seconds.
RoundTripToTheSecond ==
  (LoadedIntoEmpty /\ ~last.err /\ src.valid) =>
    /\ \A k \in Keys :
         /\ Get(o.history, k) = Get(src.L.history, k)
         /\ Get(o.current, k) = Get(src.L.current, k)
         /\ GetTime(o.cleared, k) = WholeSeconds(GetTime(src.L.cleared, k))
    /\ Sums(o) = Sums(src.L)

\* A state for C7: a ledger with three current entries, two cleared times,
\* one of them past the first second, and some history has been saved and
\* then loaded into an empty ledger.
RoundTripWitness ==
  /\ LoadedIntoEmpty
  /\ ~last.err
  /\ src.valid
  /\ Cardinality(DOMAIN src.L.current) = 3
  /\ Cardinality(DOMAIN src.L.cleared) = 2
  /\ \E k \in DOMAIN src.L.cleared : src.L.cleared[k] >= TicksPerSec
  /\ \E k \in DOMAIN src.L.history : RLess(RZero, src.L.history[k])

\* C8: after a Load that returns no error the three mappings hold exactly
\* the entries encoded in the file, and the ledger is not dirty.
LoadInSync ==
  (last.op = "Load" /\ ~last.err) =>
    /\ o.current = ReadFrom(New, disk.data).L.current
    /\ o.history = ReadFrom(New, disk.data).L.history
    /\ o.cleared = ReadFrom(New, disk.data).L.cleared
    /\ ~o.dirty

\* C9: a Load that returns an error leaves the three mappings and the dirty
\* flag as they were before the call.
LoadAllOrNothing ==
  (last.op = "Load" /\ last.err) => o = pre

\* The file exists and its magic or its version is not the expected one.
BadHeader ==
  /\ disk.exists
  /\ \/ Len(disk.data) >= 1 /\ disk.data[1] /= "#opicdb#"
     \/ Len(disk.data) >= 2 /\ disk.data[2] /= 1

\* C10: the magic and the version are checked before any data is touched.
\* A Load of a file whose magic or version differs returns an error, and no
\* entry of current, history or cleared has been added or changed.
HeaderCheckedFirst ==
  (last.op = "Load" /\ BadHeader) =>
    /\ last.err
    /\ o.current = pre.current
    /\ o.history = pre.history
    /\ o.cleared = pre.cleared

\* A state for C10: a file with a wrong version and with entries that
\* differ from the ledger's has been loaded.
HeaderCheckedFirstWitness ==
  /\ last.op = "Load"
  /\ BadHeader
  /\ disk.data[1] = "#opicdb#"
  /\ Len(disk.data) > 3
  /\ disk.data[3] > 0
  /\ src.L.current /= o.current

LoadDamagedFileReached ==
  /\ last.op = "LoadWith"
  /\ last.open = "ok"
  /\ last.ignore
  /\ disk.exists
  /\ ~src.valid

(***************************************************************************)
(* Properties of the concurrent model.                                     *)
(***************************************************************************)
\* C4: every mutating operation reads and writes the ledger's mappings
\* while it holds the exclusive lock.  Whenever a step changes current,
\* history or cleared, the thread that takes the step holds the mutex as
\* its writer.
WritesUnderLock ==
  [][(o'.current /= o.current \/ o'.history /= o.history
        \/ o'.cleared /= o.cleared)
       => \E p \in Procs : th'[p] /= th[p] /\ m.w = p]_vars

\* C5: the dirty flag tracks unsaved changes under every interleaving.
\* Once every call has returned, Dirty() is true iff a mutating call has
\* completed since the state captured by the last Save that succeeded.
DirtyTracksUnsaved ==
  (\A p \in Procs : th[p].pc = "idle") => (o.dirty = unsaved)

\* The threads inside the critical section of a mutating call.
Inside == {p \in Procs : th[p].pc \in {"body", "skim", "unlock"}}

\* The orders in which the calls of the threads can be made one after
\* another.
CallOrders ==
  {ord \in [1 .. Cardinality(Procs) -> Procs] :
     \A i, j \in 1 .. Cardinality(Procs) : ord[i] = ord[j] => i = j}

\* The calls of the threads made one after another in the order ord, from
\* ledger L and call i on: the ledger at the end and what each call
\* returns.
RECURSIVE OneByOne(_, _, _)
OneByOne(L, ord, i) ==
  IF i > Len(ord) THEN [L |-> L, rets |-> <<>>]
  ELSE LET c == th[ord[i]]
           rest == OneByOne(Distribute(L, c.source, c.ids, c.t, c.nows),
                            ord, i + 1)
       IN [L |-> rest.L,
           rets |-> <<DistributeRet(L, c.source)>> \o rest.rets]

\* C18: concurrent Distribute calls are serializable.  Once the calls of
\* all the threads have returned, the current and history mappings and
\* what each call returned are those of making the same calls one after
\* another in some order; and at no time are two calls between their first
\* and last step, so no call sees the reserve or the size of the ledger in
\* the middle of another call.
DistributeSerializable ==
  /\ Cardinality(Inside) <= 1
  /\ (\A p \in Procs : th[p].pc = "done") =>
       \E ord \in CallOrders :
         LET r == OneByOne(pre, ord, 1)
         IN /\ o.current = r.L.current
            /\ o.history = r.L.history
            /\ \A i \in 1 .. Len(ord) : th[ord[i]].c = r.rets[i]

\* A state for C18: two calls with different sources, each an output of
\* the other, have returned on a ledger where both sources and the reserve
\* held cash, and the order of the calls shows in the result.
DistributeSerializableWitness ==
  /\ \A p \in Procs : th[p].pc = "done"
  /\ th["p"].source /= th["q"].source
  /\ th["p"].ids = <<th["q"].source>>
  /\ th["q"].ids = <<th["p"].source>>
  /\ RLess(RZero, Get(pre.current, VirtualKey))
  /\ \A s \in Idents : RLess(RZero, Get(pre.current, fnvHash(s)))
  /\ \E ord \in CallOrders : OneByOne(pre, ord, 1).L.current /= o.current

====
